---- MODULE Spec2Model ----
(***************************************************************************)
(* The download-job service: the in-memory job map, the SQLite job table,  *)
(* the four-phase background pipeline processDownloadJob and the initiate  *)
(* handler that launches it.  One action per handler / continuation: a     *)
(* step runs from one await to the next, as the single-threaded event loop *)
(* runs it.                                                                 *)
(***************************************************************************)
EXTENDS Integers, Sequences, FiniteSets, TLC

(* ------------------------------ bounds -------------------------------- *)
\* longest file_keys list of a request in the interleaved specification
MaxKeys == 2
\* longest file_keys list in the single-job specification of progress values
MaxTotal == 50
\* longest file_keys list in the specification with fairness
MaxFairKeys == 1
\* process restarts in the restart specification
MaxRestarts == 1
MaxPolls == 1
MaxPending == 2
MaxWatchedKeys == 1
MaxRepeatKeys == 2

JobIds == {"j1", "j2"}

(* ------------------------- IEEE-754 arithmetic ------------------------ *)
\* Numbers in the code are binary64.  A positive double is [m, e]: m the
\* 53 significand bits, most significant first (m[1] = 1), value
\* 1.m[2]m[3]... * 2^e.
MantissaBits == 53

RECURSIVE LongDivide(_, _, _, _)
LongDivide(rem, n, k, acc) ==
    IF k = 0 THEN [bits |-> acc, rem |-> rem]
    ELSE IF 2 * rem >= n THEN LongDivide(2 * rem - n, n, k - 1, Append(acc, 1))
    ELSE LongDivide(2 * rem, n, k - 1, Append(acc, 0))

RECURSIVE Increment(_)
Increment(bits) ==
    IF bits = <<>> THEN <<>>
    ELSE IF bits[Len(bits)] = 0 THEN SubSeq(bits, 1, Len(bits) - 1) \o <<1>>
    ELSE Increment(SubSeq(bits, 1, Len(bits) - 1)) \o <<0>>

AllOnes(bits) == \A j \in 1..Len(bits) : bits[j] = 1

\* round to nearest, ties to even: `up` says the discarded part asks for the
\* next significand
RoundNearestEven(bits, e, up) ==
    IF ~up THEN [m |-> bits, e |-> e]
    ELSE IF AllOnes(bits)
         THEN [m |-> <<1>> \o [j \in 1..(Len(bits) - 1) |-> 0], e |-> e + 1]
    ELSE [m |-> Increment(bits), e |-> e]

RECURSIVE Normalize(_, _, _)
Normalize(a, b, s) ==
    IF a >= b THEN [a |-> a, s |-> s] ELSE Normalize(2 * a, b, s + 1)

\* a / b for integers 1 <= a <= b (the operands of (i + 1) / fileKeys.length)
FloatDiv(a, b) ==
    LET nz == Normalize(a, b, 0)
        d  == LongDivide(nz.a - b, b, MantissaBits - 1, <<1>>)
        up == \/ 2 * d.rem > b
              \/ 2 * d.rem = b /\ d.bits[MantissaBits] = 1
    IN  RoundNearestEven(d.bits, 0 - nz.s, up)

RECURSIVE NatBits(_)
NatBits(v) == IF v = 0 THEN <<>> ELSE NatBits(v \div 2) \o <<v % 2>>

RECURSIVE MulBits(_, _, _, _)
MulBits(bits, c, carry, acc) ==
    IF bits = <<>> THEN NatBits(carry) \o acc
    ELSE MulBits(SubSeq(bits, 1, Len(bits) - 1), c,
                 (bits[Len(bits)] * c + carry) \div 2,
                 <<(bits[Len(bits)] * c + carry) % 2>> \o acc)

\* x * c for a double x and a small positive integer c
FloatMul(x, c) ==
    LET p     == MulBits(x.m, c, 0, <<>>)
        extra == Len(p) - MantissaBits
        kept  == SubSeq(p, 1, MantissaBits)
        up    == /\ extra > 0
                 /\ p[MantissaBits + 1] = 1
                 /\ \/ \E j \in (MantissaBits + 2)..Len(p) : p[j] = 1
                    \/ kept[MantissaBits] = 1
    IN  RoundNearestEven(kept, x.e + extra, up)

RECURSIVE BitsNat(_)
BitsNat(bits) ==
    IF bits = <<>> THEN 0
    ELSE 2 * BitsNat(SubSeq(bits, 1, Len(bits) - 1)) + bits[Len(bits)]

\* Math.round: the nearest integer, a tie going to the larger one
MathRound(x) ==
    IF x.e < -1 THEN 0
    ELSE IF x.e = -1 THEN 1
    ELSE BitsNat(SubSeq(x.m, 1, x.e + 1)) + x.m[x.e + 2]

\* job.progress = Math.round(((i + 1) / fileKeys.length) * 25), done = i + 1
CollectProgress(done, total) == MathRound(FloatMul(FloatDiv(done, total), 25))

\* the values of CollectProgress for every list length of the model
ProgressTable ==
    [total \in 1..(MaxTotal + MaxKeys) |->
        [done \in 1..total |-> CollectProgress(done, total)]]

(* ------------------------------ values -------------------------------- *)
\* an optional field that is not set (undefined in the cache, NULL in SQLite)
Undefined == <<>>

\* the i-th object key of the source bucket
KeyName(i) == "file" \o ToString(i)

Range(s) == {s[j] : j \in 1..Len(s)}

KeyIndex(key) == CHOOSE i \in 1..(MaxTotal + MaxKeys + 2) : KeyName(i) = key

\* the bytes the source bucket holds under a key, as the chunks of the
\* response stream
SourceChunks(key) == <<<<KeyIndex(key)>>, <<7, KeyIndex(key) + 1>>>>

GetOutcomes == {"ok", "empty", "nobody", "error"}

\* messages are token lists: a key occurs in a message iff it is a token
S3ErrorMessage == <<"S3ServiceException">>
SqliteErrorMessage == <<"SqliteError: database is locked">>
ArchiverErrorMessage == <<"ArchiverError">>
NoBodyMessage(key) == <<"File ", key, " has no body">>
EmptyMessage(key) == <<"File ", key, " is empty">>
\* a variant of CollectMessage that leaves the key out
CollectMessageNoKey(key, cause) == <<"Failed to collect file: ">> \o cause
CollectMessage(key, cause) == <<"Failed to collect file ", key, ": ">> \o cause
IntegrityMessage(key) == <<"Integrity check failed for file ", key>>

\* streamToBuffer: Buffer.concat of the chunks read from the stream
RECURSIVE streamToBuffer(_)
streamToBuffer(chunks) ==
    IF chunks = <<>> THEN <<>> ELSE Head(chunks) \o streamToBuffer(Tail(chunks))

\* calculateChecksum: a digest of the bytes (sha256 in the code; here a
\* polynomial hash, which like it depends on every byte and on the length)
RECURSIVE calculateChecksum(_)
calculateChecksum(data) ==
    IF data = <<>> THEN 17
    ELSE (31 * calculateChecksum(SubSeq(data, 1, Len(data) - 1))
            + data[Len(data)] + 1) % 65521

\* a variant of finalKey that does not depend on the job id
finalKeyShared(jobId) == <<"archive", ".zip">>

\* `${jobId}.zip`
finalKey(jobId) == <<jobId, ".zip">>

\* the URL getSignedUrl(browserS3Client, GetObject(finalKey), expiresIn 3600)
PresignedUrl(jobId) == <<"http://localhost:9000/downloads/">> \o finalKey(jobId)
                          \o <<"?X-Amz-Expires=3600">>

\* error instanceof Error ? error.message : "Unknown error"
Thrown(message) == [isError |-> TRUE, message |-> message]
ErrorMessage(error) == IF error.isError THEN error.message ELSE <<"Unknown error">>

(* ------------------------------- state -------------------------------- *)
VARIABLES
    jobs,        \* the in-memory Map jobId -> JobStatus
    db,          \* the download_jobs table: job_id -> JobRecord
    task,        \* per job id, the processDownloadJob promise: where it is
                 \* suspended and its locals (i, tempFiles, archiveBuffer)
    dest,        \* the downloads bucket: key -> object
    storeLog,    \* per job id, the S3 / presign calls issued, with answers
    statusHist,  \* per job id, every value assigned to job.status, in order
    progHist,    \* per job id, every value assigned to job.progress by the
                 \* pipeline, in order
    dbFailed,    \* the job ids one of whose SQLite calls has thrown
    preRestart,  \* the job map as it was when the process last stopped
    restarts,    \* how many times the process was restarted
    subs,        \* per SSE connection, the closure of the subscribe handler:
                 \* where it is, lastProgress / lastStatus, its interval,
                 \* its abort listener, its writes not yet resolved
    events,      \* per SSE connection, every event handed to writeSSE
    poll,        \* the status requests answered so far and the last answer
    replies,     \* per initiate request, named by the job id it gets or
                 \* would have got, the response of the handler
    download     \* the request to the file endpoint: where its handler is,
                 \* the store calls it has issued and its response

\* what the pipeline and the initiate handler write
pipelineVars == <<jobs, db, task, dest, storeLog, statusHist, progHist, dbFailed>>

vars == <<jobs, db, task, dest, storeLog, statusHist, progHist, dbFailed,
          preRestart, restarts, subs, events, poll, replies, download>>

SubIds == {"s1", "s2"}

\* a job id of an earlier process, which the table may hold a row of
StoredIds == {"j0"}

\* a connection nobody has opened yet
NoSub == [pc |-> "idle", jobId |-> "", lastProgress |-> 0, lastStatus |-> "",
          interval |-> FALSE, listener |-> FALSE, aborted |-> FALSE,
          pending |-> 0, sentAtAbort |-> 0]

NoReply == [code |-> 0, body |-> <<>>]

\* no request to the file endpoint yet
NoDownload == [pc |-> "idle", jobId |-> "", calls |-> <<>>, code |-> 0,
               body |-> <<>>]

NoPoll == [count |-> 0, jobId |-> "", code |-> 0, body |-> <<>>]

NoTask == [pc |-> "none", i |-> 0, tempFiles |-> <<>>, archiveBuffer |-> <<>>,
           thrown |-> Thrown(Undefined)]

Init ==
    /\ jobs = <<>>
    /\ db = <<>>
    /\ task = [id \in JobIds |-> NoTask]
    /\ dest = <<>>
    /\ storeLog = [id \in JobIds |-> <<>>]
    /\ statusHist = [id \in JobIds |-> <<>>]
    /\ progHist = [id \in JobIds |-> <<>>]
    /\ dbFailed = {}
    /\ preRestart = <<>>
    /\ restarts = 0
    /\ subs = [c \in SubIds |-> NoSub]
    /\ events = [c \in SubIds |-> <<>>]
    /\ poll = NoPoll
    /\ replies = [id \in JobIds |-> NoReply]
    /\ download = NoDownload

(* ------------------------------ database ------------------------------ *)
JsonStringify(keys) == <<"[">> \o keys \o <<"]">>
JsonParse(text) == SubSeq(text, 2, Len(text) - 1)

\* dbOperations.insertJob
insertJob(d, job) ==
    (job.jobId :> [job_id |-> job.jobId, status |-> job.status,
                   file_keys |-> JsonStringify(job.fileKeys),
                   progress |-> job.progress,
                   files_completed |-> job.filesCompleted,
                   total_files |-> job.totalFiles,
                   download_url |-> job.downloadUrl,
                   error |-> job.error]) @@ d

\* updates.f ?? current
Coalesce(updates, f, current) ==
    IF f \in DOMAIN updates THEN updates[f] ELSE current

\* dbOperations.updateJob: read the row, return if there is none, else write
\* the merge of the updates into it
updateJob(d, jobId, updates) ==
    IF jobId \notin DOMAIN d THEN d
    ELSE [d EXCEPT ![jobId] =
            [job_id |-> @.job_id,
             status |-> Coalesce(updates, "status", @.status),
             file_keys |-> @.file_keys,
             progress |-> Coalesce(updates, "progress", @.progress),
             files_completed |-> Coalesce(updates, "filesCompleted", @.files_completed),
             total_files |-> @.total_files,
             download_url |-> Coalesce(updates, "downloadUrl", @.download_url),
             error |-> Coalesce(updates, "error", @.error)]]

\* recordToJobStatus
recordToJobStatus(record) ==
    [jobId |-> record.job_id, status |-> record.status,
     fileKeys |-> JsonParse(record.file_keys),
     progress |-> record.progress,
     filesCompleted |-> record.files_completed,
     totalFiles |-> record.total_files,
     downloadUrl |-> record.download_url,
     error |-> record.error]

\* dbOperations.getJob
getJob(d, jobId) ==
    IF jobId \in DOMAIN d THEN recordToJobStatus(d[jobId]) ELSE Undefined

(* --------------------------- the pipeline ----------------------------- *)
\* The running state of one continuation of processDownloadJob: the job
\* object it mutates, the table, its locals and what it has logged.
Load(id) ==
    [job |-> jobs[id], db |-> db, task |-> task[id], log |-> storeLog[id],
     statuses |-> statusHist[id], progresses |-> progHist[id],
     threw |-> FALSE, dest |-> dest, reply |-> replies[id]]

\* a call of dbOperations.updateJob that throws (throws = TRUE) or returns
DbCall(s, updates, throws) ==
    IF throws THEN [s EXCEPT !.threw = TRUE]
    ELSE [s EXCEPT !.db = updateJob(s.db, s.job.jobId, updates)]

SetStatus(s, status) ==
    [s EXCEPT !.job.status = status, !.statuses = Append(@, status)]

SetProgress(s, progress) ==
    [s EXCEPT !.job.progress = progress, !.progresses = Append(@, progress)]

\* s3Client.send(command) / getSignedUrl(...): the call is issued and the
\* task suspends at pc until it is answered
Issue(s, op, bucket, key, pc) ==
    [s EXCEPT !.log = Append(@, [op |-> op, bucket |-> bucket, key |-> key,
                                 res |-> "pending"]),
              !.task.pc = pc]

Answer(s, res) == [s EXCEPT !.log[Len(s.log)].res = res]

\* a variant of CatchBlock that does not record the message
CatchBlockNoError(s, error, throws) ==
    LET s1 == SetStatus(s, "failed")
        s2 == DbCall(s1, [status |-> "failed"], throws)
    IN  [s2 EXCEPT !.task.pc = "rejected", !.task.thrown = error,
                   !.task.tempFiles = <<>>]

\* catch (error) { job.status = "failed"; job.error = ...; updateJob in
\* try/catch; throw error } finally { tempFiles.length = 0 }
CatchBlock(s, error, throws) ==
    LET s1 == [SetStatus(s, "failed") EXCEPT !.job.error = ErrorMessage(error)]
        s2 == DbCall(s1, [status |-> "failed", error |-> s1.job.error], throws)
    IN  [s2 EXCEPT !.task.pc = "rejected", !.task.thrown = error,
                   !.task.tempFiles = <<>>]

\* a variant of StartProcessing that leaves the status queued
StartWithoutStatus(s, throws) ==
    [DbCall(s, [status |-> "processing"], throws) EXCEPT
        !.task = [NoTask EXCEPT !.pc = "start"]]

\* job.status = "processing" and its updateJob in try/catch; tempFiles = []
StartProcessing(s, throws) ==
    LET s1 == SetStatus(s, "processing")
        s2 == DbCall(s1, [status |-> "processing"], throws)
    IN  [s2 EXCEPT !.task = [NoTask EXCEPT !.pc = "start"]]

\* a variant of IssueGet that fetches the next two keys at once
IssueGetParallel(s) ==
    LET s1 == Issue(s, "get", "source", s.job.fileKeys[s.task.i + 1], "fetch")
    IN  IF s.task.i + 2 <= Len(s.job.fileKeys)
        THEN Issue(s1, "get", "source", s.job.fileKeys[s.task.i + 2], "fetch")
        ELSE s1

\* the top of the Phase 1 loop: issue GetObject for fileKeys[i]
IssueGet(s) ==
    Issue(s, "get", "source", s.job.fileKeys[s.task.i + 1], "fetch")

\* a variant of Commit in which the progress written for one job is written
\* to every cached job
CommitToEveryJob(id, s) ==
    /\ jobs' = [b \in DOMAIN jobs \cup {id} |->
                  IF b = id THEN s.job
                  ELSE [jobs[b] EXCEPT !.progress = s.job.progress]]
    /\ db' = s.db
    /\ task' = [task EXCEPT ![id] = s.task]
    /\ dest' = s.dest
    /\ storeLog' = [storeLog EXCEPT ![id] = s.log]
    /\ statusHist' = [statusHist EXCEPT ![id] = s.statuses]
    /\ progHist' = [progHist EXCEPT ![id] = s.progresses]
    /\ dbFailed' = IF s.threw THEN dbFailed \cup {id} ELSE dbFailed
    /\ replies' = [replies EXCEPT ![id] = s.reply]
    /\ UNCHANGED <<preRestart, restarts, download, subs, events, poll>>

\* what one continuation of a task leaves behind: the job object it holds,
\* its locals and its calls, and the table and bucket as it wrote them
Commit(id, s) ==
    /\ jobs' = (id :> s.job) @@ jobs
    /\ db' = s.db
    /\ task' = [task EXCEPT ![id] = s.task]
    /\ dest' = s.dest
    /\ storeLog' = [storeLog EXCEPT ![id] = s.log]
    /\ statusHist' = [statusHist EXCEPT ![id] = s.statuses]
    /\ progHist' = [progHist EXCEPT ![id] = s.progresses]
    /\ dbFailed' = IF s.threw THEN dbFailed \cup {id} ELSE dbFailed
    /\ replies' = [replies EXCEPT ![id] = s.reply]
    /\ UNCHANGED <<preRestart, restarts, download, subs, events, poll>>

(* ------------------------- POST /v1/download/initiate ----------------- *)
\* a variant of ValidKeys that keeps a key whatever its HeadObject answered
ValidKeysUnchecked(file_keys, headOk) == file_keys

\* the keys of the request whose HeadObject succeeded, in request order
ValidKeys(file_keys, headOk) == SelectSeq(file_keys, LAMBDA k : k \in headOk)

\* a variant of NewJob that counts the keys of the request, valid or not
NewJobMiscounted(jobId, validKeys) ==
    [jobId |-> jobId, status |-> "queued", fileKeys |-> validKeys,
     progress |-> 0, filesCompleted |-> 0, totalFiles |-> Len(validKeys) + 1,
     downloadUrl |-> Undefined, error |-> Undefined]

\* const jobStatus = { jobId, status: "queued", fileKeys: validKeys, ... }
NewJob(jobId, validKeys) ==
    [jobId |-> jobId, status |-> "queued", fileKeys |-> validKeys,
     progress |-> 0, filesCompleted |-> 0, totalFiles |-> Len(validKeys),
     downloadUrl |-> Undefined, error |-> Undefined]

\* jobs.set(jobId, jobStatus): the job enters the map, and only the map
CreateJob(s, jobId, validKeys) ==
    [s EXCEPT !.job = NewJob(jobId, validKeys), !.statuses = <<"queued">>]

\* return c.json({ error: "Validation Error", message: ... }, 400)
Rejection ==
    [code |-> 400,
     body |-> [error |-> <<"Validation Error">>,
               message |-> <<"No valid file keys found in source bucket">>]]

\* a variant of Respond that awaits the task before it answers, here a task
\* whose first GetObject is answered by an error
RespondAfterTask(s, jobId, validKeys) ==
    [CatchBlock(Answer(s, "error"),
                Thrown(CollectMessage(validKeys[1], S3ErrorMessage)), FALSE)
        EXCEPT !.reply =
            [code |-> 200,
             body |-> [jobId |-> jobId, status |-> "queued",
                       totalFiles |-> Len(validKeys),
                       subscribeUrl |-> <<"/v1/download/subscribe/", jobId>>,
                       statusUrl |-> <<"/v1/download/status/", jobId>>]]]

\* return c.json({ jobId, status: "queued", totalFiles, subscribeUrl,
\* statusUrl }, 200), reached with the task suspended at its first await
Respond(s, jobId, validKeys) ==
    [s EXCEPT !.reply =
        [code |-> 200,
         body |-> [jobId |-> jobId, status |-> "queued",
                   totalFiles |-> Len(validKeys),
                   subscribeUrl |-> <<"/v1/download/subscribe/", jobId>>,
                   statusUrl |-> <<"/v1/download/status/", jobId>>]]]

\* a variant of Initiate that leaves the start of the task to a later turn
\* of the event loop
InitiateDeferred(jobId, file_keys, headOk, throws) ==
    /\ statusHist[jobId] = <<>>
    /\ replies[jobId] = NoReply
    /\ LET validKeys == ValidKeys(file_keys, headOk)
           s0 == [job |-> Undefined, db |-> db, task |-> NoTask, log |-> <<>>,
                  statuses |-> <<>>, progresses |-> <<>>, threw |-> FALSE,
                  dest |-> dest, reply |-> NoReply]
       IN  IF Len(validKeys) = 0
           THEN /\ replies' = [replies EXCEPT ![jobId] = Rejection]
                /\ UNCHANGED <<pipelineVars, preRestart, restarts, download, subs, events,
                               poll>>
           ELSE Commit(jobId, Respond(CreateJob(s0, jobId, validKeys),
                                      jobId, validKeys))

\* The handler after its HeadObject calls: 400 when no key is valid; else a
\* fresh id, the queued record, and processDownloadJob run up to its first
\* await (the GetObject of the first key).  jobId is the value randomUUID
\* has in store for the request, which also names the request in replies.
Initiate(jobId, file_keys, headOk, throws) ==
    /\ statusHist[jobId] = <<>>
    /\ replies[jobId] = NoReply
    /\ LET validKeys == ValidKeys(file_keys, headOk)
           s0 == [job |-> Undefined, db |-> db, task |-> NoTask, log |-> <<>>,
                  statuses |-> <<>>, progresses |-> <<>>, threw |-> FALSE,
                  dest |-> dest, reply |-> NoReply]
       IN  IF Len(validKeys) = 0
           THEN /\ replies' = [replies EXCEPT ![jobId] = Rejection]
                /\ UNCHANGED <<pipelineVars, preRestart, restarts, download, subs, events,
                               poll>>
           ELSE Commit(jobId,
                       Respond(IssueGet(StartProcessing(
                                   CreateJob(s0, jobId, validKeys), throws)),
                               jobId, validKeys))

(* --------------------- processDownloadJob, resumed -------------------- *)
\* a variant of TempFile whose checksum is taken before the bytes are read
TempFileStaleChecksum(key, fileData) ==
    [key |-> key, data |-> fileData, checksum |-> calculateChecksum(<<>>)]

\* tempFiles.push({ key, data: fileData, checksum })
TempFile(key, fileData) ==
    [key |-> key, data |-> fileData, checksum |-> calculateChecksum(fileData)]

\* the first file of tempFiles whose recomputed checksum differs from the
\* stored one (0 when there is none)
FirstCorrupt(tempFiles) ==
    LET bad == {j \in 1..Len(tempFiles) :
                   calculateChecksum(tempFiles[j].data) # tempFiles[j].checksum}
    IN  IF bad = {} THEN 0 ELSE CHOOSE j \in bad : \A k \in bad : j <= k

\* a variant of Zip that appends the files last to first
ZipReversed(tempFiles) ==
    [j \in 1..Len(tempFiles) |->
        [name |-> tempFiles[Len(tempFiles) + 1 - j].key,
         data |-> tempFiles[Len(tempFiles) + 1 - j].data]]

\* archive.append(file.data, { name: file.key }) for every file, finalize,
\* and the concatenated chunks at the end event
Zip(tempFiles) ==
    [j \in 1..Len(tempFiles) |->
        [name |-> tempFiles[j].key, data |-> tempFiles[j].data]]

\* a variant of UnguardedDbCall whose exception ends the task unnoticed
UnguardedDbCallSilent(s, updates, throws, catchThrows, after) ==
    IF throws
    THEN [s EXCEPT !.threw = TRUE, !.task.pc = "resolved", !.task.tempFiles = <<>>]
    ELSE [DbCall(s, updates, FALSE) EXCEPT !.task.pc = after]

\* an updateJob call outside any inner try/catch: its exception is an
\* exception of the phase
UnguardedDbCall(s, updates, throws, catchThrows, after) ==
    IF throws
    THEN CatchBlock([s EXCEPT !.threw = TRUE], Thrown(SqliteErrorMessage), catchThrows)
    ELSE [DbCall(s, updates, FALSE) EXCEPT !.task.pc = after]

\* a variant of ProcessFiles that does not wait for the archive: 50 and the
\* PutObject follow finalize() at once, with the chunks received by then
ProcessFilesNoWait(s, throws, catchThrows) ==
    Issue(SetProgress(SetProgress(s, 30), 50), "put", "downloads",
          finalKey(s.job.jobId), "put")

\* Phase 2 up to `await archivePromise`
ProcessFiles(s, throws, catchThrows) ==
    LET corrupt == FirstCorrupt(s.task.tempFiles)
    IN  IF corrupt # 0
        THEN CatchBlock(s, Thrown(IntegrityMessage(s.task.tempFiles[corrupt].key)),
                        throws)
        ELSE UnguardedDbCall(SetProgress(s, 30), [progress |-> 30], throws,
                             catchThrows, "archive")

\* a variant of Collect that does not count the file it has collected
CollectKeepsCount(s, outcome, t1, t2, t3) ==
    LET key == s.job.fileKeys[s.task.i + 1]
        total == Len(s.job.fileKeys)
        s0 == Answer(s, outcome)
        fileData == IF outcome = "ok" THEN streamToBuffer(SourceChunks(key))
                    ELSE streamToBuffer(<<>>)
    IN  IF outcome = "error"
        THEN CatchBlock(s0, Thrown(CollectMessage(key,
                                ErrorMessage(Thrown(S3ErrorMessage)))), t1)
        ELSE IF outcome = "nobody"
        THEN CatchBlock(s0, Thrown(CollectMessage(key,
                                ErrorMessage(Thrown(NoBodyMessage(key))))), t1)
        ELSE IF Len(fileData) = 0
        THEN CatchBlock(s0, Thrown(CollectMessage(key,
                                ErrorMessage(Thrown(EmptyMessage(key))))), t1)
        ELSE LET s1 == [s0 EXCEPT !.task.tempFiles = Append(@, TempFile(key, fileData)),
                                  !.task.i = @ + 1]
                 s2 == SetProgress(s1, ProgressTable[total][s1.task.i])
                 s3 == DbCall(s2, [progress |-> s2.job.progress,
                                   filesCompleted |-> s2.job.filesCompleted], t1)
             IN  IF s3.task.i < total THEN IssueGet(s3)
                 ELSE ProcessFiles(s3, t2, t3)

\* Phase 1, from the answer to GetObject of fileKeys[i] to the next await
Collect(s, outcome, t1, t2, t3) ==
    LET key == s.job.fileKeys[s.task.i + 1]
        total == Len(s.job.fileKeys)
        s0 == Answer(s, outcome)
        fileData == IF outcome = "ok" THEN streamToBuffer(SourceChunks(key))
                    ELSE streamToBuffer(<<>>)
    IN  IF outcome = "error"
        THEN CatchBlock(s0, Thrown(CollectMessage(key,
                                ErrorMessage(Thrown(S3ErrorMessage)))), t1)
        ELSE IF outcome = "nobody"
        THEN CatchBlock(s0, Thrown(CollectMessage(key,
                                ErrorMessage(Thrown(NoBodyMessage(key))))), t1)
        ELSE IF Len(fileData) = 0
        THEN CatchBlock(s0, Thrown(CollectMessage(key,
                                ErrorMessage(Thrown(EmptyMessage(key))))), t1)
        ELSE LET s1 == [s0 EXCEPT !.task.tempFiles = Append(@, TempFile(key, fileData)),
                                  !.task.i = @ + 1,
                                  !.job.filesCompleted = s0.task.i + 1]
                 s2 == SetProgress(s1, ProgressTable[total][s1.task.i])
                 s3 == DbCall(s2, [progress |-> s2.job.progress,
                                   filesCompleted |-> s2.job.filesCompleted], t1)
             IN  IF s3.task.i < total THEN IssueGet(s3)
                 ELSE ProcessFiles(s3, t2, t3)

\* a variant of Archive whose listeners miss the events of the archive: the
\* promise is never settled
ArchiveLost(s, outcome, t1, t2) == s

\* from the end (or error) event of the archive to the PutObject call
Archive(s, outcome, t1, t2) ==
    IF outcome = "error" THEN CatchBlock(s, Thrown(ArchiverErrorMessage), t1)
    ELSE LET s1 == [s EXCEPT !.task.archiveBuffer = Zip(s.task.tempFiles)]
             s2 == UnguardedDbCall(SetProgress(s1, 50), [progress |-> 50], t1, t2,
                                   "upload")
         IN  IF s2.task.pc = "upload"
             THEN Issue(s2, "put", "downloads", finalKey(s2.job.jobId), "put")
             ELSE s2

\* a variant of Upload that sends the PutObject again when it fails
UploadRetries(s, outcome, t1) ==
    IF outcome = "error"
    THEN Issue(Answer(s, outcome), "put", "downloads", finalKey(s.job.jobId), "put")
    ELSE LET key == finalKey(s.job.jobId)
             object == [Body |-> s.task.archiveBuffer,
                        Metadata |-> [jobId |-> s.job.jobId,
                                      fileCount |-> Len(s.job.fileKeys)]]
             s1 == [Answer(s, outcome) EXCEPT
                       !.dest = (key :> object) @@ [k \in DOMAIN s.dest \ {key} |-> s.dest[k]]]
             s2 == DbCall(SetProgress(s1, 75), [progress |-> 75], t1)
         IN  Issue(s2, "presign", "downloads", key, "presign")

\* a variant of Upload that goes on after a PutObject that failed
UploadIgnoresError(s, outcome, t1) ==
    LET s2 == DbCall(SetProgress(Answer(s, outcome), 75), [progress |-> 75], t1)
    IN  Issue(s2, "presign", "downloads", finalKey(s.job.jobId), "presign")

\* Phase 3, from the answer to PutObject to the getSignedUrl call
Upload(s, outcome, t1) ==
    IF outcome = "error" THEN CatchBlock(Answer(s, outcome), Thrown(S3ErrorMessage), t1)
    ELSE LET key == finalKey(s.job.jobId)
             object == [Body |-> s.task.archiveBuffer,
                        Metadata |-> [jobId |-> s.job.jobId,
                                      fileCount |-> Len(s.job.fileKeys)]]
             s1 == [Answer(s, outcome) EXCEPT
                       !.dest = (key :> object) @@ [k \in DOMAIN s.dest \ {key} |-> s.dest[k]]]
             s2 == DbCall(SetProgress(s1, 75), [progress |-> 75], t1)
         IN  Issue(s2, "presign", "downloads", key, "presign")

\* a variant of Publish without the finally block
PublishKeepsFiles(s, outcome, t1) ==
    IF outcome = "error" THEN CatchBlock(Answer(s, outcome), Thrown(S3ErrorMessage), t1)
    ELSE LET s1 == SetProgress(SetStatus(Answer(s, outcome), "completed"), 100)
             s2 == [s1 EXCEPT !.job.downloadUrl = PresignedUrl(s.job.jobId)]
             s3 == DbCall(s2, [status |-> "completed", progress |-> 100,
                               downloadUrl |-> s2.job.downloadUrl], t1)
         IN  [s3 EXCEPT !.task.pc = "resolved"]

\* Phase 4, from the answer of getSignedUrl to the end of the function
Publish(s, outcome, t1) ==
    IF outcome = "error" THEN CatchBlock(Answer(s, outcome), Thrown(S3ErrorMessage), t1)
    ELSE LET s1 == SetProgress(SetStatus(Answer(s, outcome), "completed"), 100)
             s2 == [s1 EXCEPT !.job.downloadUrl = PresignedUrl(s.job.jobId)]
             s3 == DbCall(s2, [status |-> "completed", progress |-> 100,
                               downloadUrl |-> s2.job.downloadUrl], t1)
         IN  [s3 EXCEPT !.task.pc = "resolved", !.task.tempFiles = <<>>]

\* a variant of Rejected that records a message of its own
RejectedOwnMessage(s, hasJob, t1) ==
    IF ~hasJob THEN [s EXCEPT !.task.pc = "handled"]
    ELSE LET s1 == [SetStatus(s, "failed") EXCEPT
                       !.job.error = <<"Unknown error">>]
             s2 == DbCall(s1, [status |-> "failed", error |-> s1.job.error], t1)
         IN  [s2 EXCEPT !.task.pc = "handled"]

\* a variant of Rejected that also resets the progress of the failed job
RejectedResetsProgress(s, hasJob, t1) ==
    IF ~hasJob THEN [s EXCEPT !.task.pc = "handled"]
    ELSE LET s1 == [SetProgress(SetStatus(s, "failed"), 0) EXCEPT
                       !.job.error = ErrorMessage(s.task.thrown)]
             s2 == DbCall(s1, [status |-> "failed", error |-> s1.job.error], t1)
         IN  [s2 EXCEPT !.task.pc = "handled"]

\* the .catch callback the initiate handler attaches to the task
Rejected(s, hasJob, t1) ==
    IF ~hasJob THEN [s EXCEPT !.task.pc = "handled"]
    ELSE LET s1 == [SetStatus(s, "failed") EXCEPT
                       !.job.error = ErrorMessage(s.task.thrown)]
             s2 == DbCall(s1, [status |-> "failed", error |-> s1.job.error], t1)
         IN  [s2 EXCEPT !.task.pc = "handled"]

FetchReturn(id, outcome, t1, t2, t3) ==
    /\ task[id].pc = "fetch"
    /\ Commit(id, Collect(Load(id), outcome, t1, t2, t3))

ArchiveReturn(id, outcome, t1, t2) ==
    /\ task[id].pc = "archive"
    /\ Commit(id, Archive(Load(id), outcome, t1, t2))

PutReturn(id, outcome, t1) ==
    /\ task[id].pc = "put"
    /\ Commit(id, Upload(Load(id), outcome, t1))

PresignReturn(id, outcome, t1) ==
    /\ task[id].pc = "presign"
    /\ Commit(id, Publish(Load(id), outcome, t1))

RejectionCallback(id, t1) ==
    /\ task[id].pc = "rejected"
    /\ Commit(id, Rejected(Load(id), id \in DOMAIN jobs, t1))

\* The downloads bucket executes the PutObject a task has sent, before the
\* answer reaches the process (and whether or not an answer ever does: the
\* task may be told of an error for a request the bucket has executed).
PutApplied(id) ==
    /\ task[id].pc = "put"
    /\ finalKey(id) \notin DOMAIN dest
    /\ dest' = (finalKey(id) :>
                   [Body |-> task[id].archiveBuffer,
                    Metadata |-> [jobId |-> id,
                                  fileCount |-> Len(jobs[id].fileKeys)]]) @@ dest
    /\ UNCHANGED <<jobs, db, task, storeLog, statusHist, progHist, dbFailed,
                   preRestart, restarts, download, subs, events, poll, replies>>

\* The process stops and starts again: the job map and every task are gone,
\* the table and the buckets stay.
Restart ==
    /\ restarts < MaxRestarts
    /\ jobs' = <<>>
    /\ task' = [id \in JobIds |-> NoTask]
    /\ preRestart' = jobs
    /\ restarts' = restarts + 1
    /\ subs' = [c \in SubIds |-> NoSub]
    /\ UNCHANGED <<db, dest, storeLog, statusHist, progHist, dbFailed, events, poll,
                   replies, download>>

(* --------------------------- specifications --------------------------- *)
\* the requests of at most n keys
Requests(n) == {[j \in 1..k |-> KeyName(j)] : k \in 1..n}

Step(id) ==
    \/ \E outcome \in GetOutcomes, t1, t2, t3 \in BOOLEAN :
          FetchReturn(id, outcome, t1, t2, t3)
    \/ \E outcome \in {"end", "error"}, t1, t2 \in BOOLEAN :
          ArchiveReturn(id, outcome, t1, t2)
    \/ \E outcome \in {"ok", "error"}, t1 \in BOOLEAN : PutReturn(id, outcome, t1)
    \/ \E outcome \in {"ok", "error"}, t1 \in BOOLEAN : PresignReturn(id, outcome, t1)
    \/ \E t1 \in BOOLEAN : RejectionCallback(id, t1)

\* a request of at most n keys, any of which may fail its HeadObject
Intake(n) ==
    \E id \in JobIds, r \in Requests(n), t \in BOOLEAN :
        \E h \in SUBSET Range(r) : Initiate(id, r, h, t)

Next ==
    \/ Intake(MaxKeys)
    \/ \E id \in JobIds : Step(id)

Spec == Init /\ [][Next]_vars

\* the same program, the downloads bucket acting on its own
NextStore ==
    \/ Next
    \/ \E id \in JobIds : PutApplied(id)

SpecStore == Init /\ [][NextStore]_vars

\* the requests of at most MaxRepeatKeys keys in which a key may occur again
RepeatRequests ==
    UNION {[1..k -> {KeyName(1), KeyName(2)}] : k \in 1..MaxRepeatKeys}

\* one job of such a request
NextRepeat ==
    \/ \E r \in RepeatRequests, t \in BOOLEAN :
          \E h \in SUBSET Range(r) : Initiate("j1", r, h, t)
    \/ Step("j1")

SpecRepeat == Init /\ [][NextRepeat]_vars

\* the same program with process restarts
NextRestart == Next \/ Restart

SpecRestart == Init /\ [][NextRestart]_vars

\* every answer a task waits for arrives
NextFair ==
    \/ Intake(MaxFairKeys)
    \/ \E id \in JobIds : Step(id)

FairSpec == Init /\ [][NextFair]_vars /\ \A id \in JobIds : WF_vars(Step(id))

\* one job of up to MaxTotal keys, all of them present in the source bucket
NextLong ==
    \/ \E r \in Requests(MaxTotal) : Initiate("j1", r, Range(r), FALSE)
    \/ \E outcome \in {"ok", "error"} : FetchReturn("j1", outcome, FALSE, FALSE, FALSE)
    \/ ArchiveReturn("j1", "end", FALSE, FALSE)
    \/ PutReturn("j1", "ok", FALSE)
    \/ PresignReturn("j1", "ok", FALSE)
    \/ RejectionCallback("j1", FALSE)

SpecLong == Init /\ [][NextLong]_vars

(* ------------------------------- lookup ------------------------------- *)
\* let job = jobs.get(jobId); if (!job) job = dbOperations.getJob(jobId)
RegistryGet(jobId) ==
    IF jobId \in DOMAIN jobs THEN jobs[jobId] ELSE getJob(db, jobId)

Terminal(status) == status \in {"completed", "failed"}

(* ---------------------- GET /v1/download/status/:jobId ---------------- *)
\* c.json / JSON.stringify of an object literal: a property whose value is
\* undefined is left out of the text
JsonObject(required, optional) ==
    required @@ [f \in {g \in DOMAIN optional : optional[g] # Undefined} |->
                    optional[f]]

\* a variant of StatusLookup that falls back to the table and fills the map
StatusLookupRehydrating(cache, d, jobId) ==
    IF jobId \in DOMAIN cache THEN [found |-> TRUE, job |-> cache[jobId], cache |-> cache]
    ELSE IF jobId \in DOMAIN d
         THEN [found |-> TRUE, job |-> getJob(d, jobId),
               cache |-> (jobId :> getJob(d, jobId)) @@ cache]
         ELSE [found |-> FALSE, job |-> Undefined, cache |-> cache]

\* const job = jobs.get(jobId): the map is the only place looked at, and it
\* is left as it is
StatusLookup(cache, d, jobId) ==
    IF jobId \in DOMAIN cache THEN [found |-> TRUE, job |-> cache[jobId], cache |-> cache]
    ELSE [found |-> FALSE, job |-> Undefined, cache |-> cache]

\* the five properties every snapshot of a job carries
SnapshotFields(job) ==
    [jobId |-> job.jobId, status |-> job.status, progress |-> job.progress,
     filesCompleted |-> job.filesCompleted, totalFiles |-> job.totalFiles]

\* the answer of the status handler: 404, or the job as JSON (createdAt and
\* updatedAt, which the job records here do not keep, aside)
StatusResponse(looked) ==
    IF ~looked.found
    THEN [code |-> 404, body |-> [error |-> <<"Job not found">>]]
    ELSE [code |-> 200,
          body |-> JsonObject(SnapshotFields(looked.job),
                              [downloadUrl |-> looked.job.downloadUrl,
                               error |-> looked.job.error])]

\* one request to the status endpoint, answered
StatusPoll(jobId) ==
    /\ poll.count < MaxPolls
    /\ LET looked == StatusLookup(jobs, db, jobId)
       IN  /\ poll' = [count |-> poll.count + 1, jobId |-> jobId,
                       code |-> StatusResponse(looked).code,
                       body |-> StatusResponse(looked).body]
           /\ jobs' = looked.cache
    /\ UNCHANGED <<db, task, dest, storeLog, statusHist, progHist, dbFailed,
                   preRestart, restarts, download, subs, events, replies>>

(* -------------------- GET /v1/download/subscribe/:jobId --------------- *)
\* a variant of Rehydrated that marks an unfinished job of the table failed
RehydratedAsFailed(jobId) ==
    IF jobId \notin DOMAIN jobs /\ jobId \in DOMAIN db
    THEN (jobId :> [getJob(db, jobId) EXCEPT
                       !.status = IF Terminal(@) THEN @ ELSE "failed"]) @@ jobs
    ELSE jobs

\* if (job) jobs.set(jobId, job), for a job found in the table only
Rehydrated(jobId) ==
    IF jobId \notin DOMAIN jobs /\ jobId \in DOMAIN db
    THEN (jobId :> getJob(db, jobId)) @@ jobs
    ELSE jobs

NotFoundEvent == [event |-> "error", data |-> [error |-> <<"Job not found">>]]

\* a variant of InitialEvent that reports no file as collected
InitialEventNoFiles(job) ==
    [event |-> "progress",
     data |-> [SnapshotFields(job) EXCEPT !.filesCompleted = 0]]

\* "Send initial status": always an event named progress, with five fields
InitialEvent(job) == [event |-> "progress", data |-> SnapshotFields(job)]

eventType(status) ==
    IF status = "completed" THEN "complete"
    ELSE IF status = "failed" THEN "error" ELSE "progress"

\* the event an interval callback writes
PollEvent(currentJob) ==
    [event |-> eventType(currentJob.status),
     data |-> JsonObject(SnapshotFields(currentJob),
                         [downloadUrl |-> currentJob.downloadUrl,
                          error |-> currentJob.error])]

\* The handler up to its first await: the lookup, the rehydration, and the
\* call of writeSSE with the not-found event or the initial snapshot.
Subscribe(c, jobId) ==
    /\ subs[c].pc = "idle"
    /\ jobs' = Rehydrated(jobId)
    /\ IF jobId \in DOMAIN jobs \/ jobId \in DOMAIN db
       THEN /\ events' = [events EXCEPT ![c] = <<InitialEvent(RegistryGet(jobId))>>]
            /\ subs' = [subs EXCEPT ![c].pc = "snapshot", ![c].jobId = jobId]
       ELSE /\ events' = [events EXCEPT ![c] = <<NotFoundEvent>>]
            /\ subs' = [subs EXCEPT ![c].pc = "notfound", ![c].jobId = jobId]
    /\ UNCHANGED <<db, task, dest, storeLog, statusHist, progHist, dbFailed,
                   preRestart, restarts, download, poll, replies>>

\* the write of the not-found event settles and the handler returns
NotFoundWritten(c) ==
    /\ subs[c].pc = "notfound"
    /\ subs' = [subs EXCEPT ![c].pc = "closed"]
    /\ UNCHANGED <<pipelineVars, preRestart, restarts, download, events, poll, replies>>

\* The write of the initial snapshot resolves (writeSSE resolves whether or
\* not the client still reads): lastProgress and lastStatus are read from
\* the job object as it is now, the interval is set and the abort listener
\* added.
SnapshotWritten(c) ==
    /\ subs[c].pc = "snapshot"
    /\ subs' = [subs EXCEPT ![c].pc = "polling",
                            ![c].lastProgress = jobs[subs[c].jobId].progress,
                            ![c].lastStatus = jobs[subs[c].jobId].status,
                            ![c].interval = TRUE,
                            ![c].listener = TRUE]
    /\ UNCHANGED <<pipelineVars, preRestart, restarts, download, events, poll, replies>>

\* One run of the interval callback up to its await: the interval cleared
\* when the map has lost the job, nothing when the job shows lastProgress
\* and lastStatus, else a call of writeSSE.
Tick(c) ==
    /\ subs[c].interval
    /\ IF subs[c].jobId \notin DOMAIN jobs
       THEN /\ subs' = [subs EXCEPT ![c].interval = FALSE]
            /\ UNCHANGED events
       ELSE LET currentJob == jobs[subs[c].jobId]
            IN  IF currentJob.progress # subs[c].lastProgress
                   \/ currentJob.status # subs[c].lastStatus
                THEN /\ subs[c].pending < MaxPending
                     /\ events' = [events EXCEPT ![c] =
                                      Append(@, PollEvent(currentJob))]
                     /\ subs' = [subs EXCEPT ![c].pending = @ + 1]
                ELSE UNCHANGED <<subs, events>>
    /\ UNCHANGED <<pipelineVars, preRestart, restarts, download, poll, replies>>

\* The write of an interval callback resolves: lastProgress and lastStatus
\* are read from the job object as it is now, and the interval is cleared
\* when that status is completed or failed.
TickWritten(c) ==
    /\ subs[c].pending > 0
    /\ subs' = [subs EXCEPT ![c].pending = @ - 1,
                            ![c].lastProgress = jobs[subs[c].jobId].progress,
                            ![c].lastStatus = jobs[subs[c].jobId].status,
                            ![c].interval =
                                @ /\ ~Terminal(jobs[subs[c].jobId].status)]
    /\ UNCHANGED <<pipelineVars, preRestart, restarts, download, events, poll, replies>>

\* a variant of Disconnect that also drops the task of the job
DisconnectCancelsTask(c) ==
    /\ subs[c].pc \in {"notfound", "snapshot", "polling"}
    /\ ~subs[c].aborted
    /\ subs' = [subs EXCEPT ![c].aborted = TRUE,
                            ![c].sentAtAbort = Len(events[c]),
                            ![c].interval = @ /\ ~subs[c].listener]
    /\ task' = [id \in JobIds |->
                  IF id = subs[c].jobId THEN NoTask ELSE task[id]]
    /\ UNCHANGED <<jobs, db, dest, storeLog, statusHist, progHist, dbFailed,
                   preRestart, restarts, download, events, poll, replies>>

\* The client goes away: the request's signal fires abort once, and the
\* listener, if it has been added by then, clears the interval.
Disconnect(c) ==
    /\ subs[c].pc \in {"notfound", "snapshot", "polling"}
    /\ ~subs[c].aborted
    /\ subs' = [subs EXCEPT ![c].aborted = TRUE,
                            ![c].sentAtAbort = Len(events[c]),
                            ![c].interval = @ /\ ~subs[c].listener]
    /\ UNCHANGED <<pipelineVars, preRestart, restarts, download, events, poll, replies>>

(* ----------------------- GET /v1/download/file/:jobId ----------------- *)
FileNotFound(jobId) ==
    [code |-> 404,
     body |-> [error |-> <<"Not Found">>,
               message |-> <<"Job ", jobId, " not found">>]]

FileNotCompleted(jobId) ==
    [code |-> 400,
     body |-> [error |-> <<"Bad Request">>,
               message |-> <<"Job ", jobId, " is not completed yet">>]]

\* a variant of FileRequest that does not look at the status of the job
FileRequestUnchecked(jobId) ==
    /\ download.pc = "idle"
    /\ IF jobId \notin DOMAIN jobs
       THEN download' = [download EXCEPT !.pc = "done", !.jobId = jobId,
                                         !.code = FileNotFound(jobId).code,
                                         !.body = FileNotFound(jobId).body]
       ELSE download' = [download EXCEPT
                            !.pc = "get", !.jobId = jobId,
                            !.calls = <<[op |-> "get", bucket |-> "downloads",
                                         key |-> finalKey(jobId)]>>]
    /\ UNCHANGED <<pipelineVars, preRestart, restarts, subs, events, poll, replies>>

\* The handler up to its await: 404 when the map has no such job, 400 when
\* its status is not completed, else a GetObject for its final key.
FileRequest(jobId) ==
    /\ download.pc = "idle"
    /\ IF jobId \notin DOMAIN jobs
       THEN download' = [download EXCEPT !.pc = "done", !.jobId = jobId,
                                         !.code = FileNotFound(jobId).code,
                                         !.body = FileNotFound(jobId).body]
       ELSE IF jobs[jobId].status # "completed"
       THEN download' = [download EXCEPT !.pc = "done", !.jobId = jobId,
                                         !.code = FileNotCompleted(jobId).code,
                                         !.body = FileNotCompleted(jobId).body]
       ELSE download' = [download EXCEPT
                            !.pc = "get", !.jobId = jobId,
                            !.calls = <<[op |-> "get", bucket |-> "downloads",
                                         key |-> finalKey(jobId)]>>]
    /\ UNCHANGED <<pipelineVars, preRestart, restarts, subs, events, poll, replies>>

\* The GetObject is answered: the object streamed back as a zip attachment,
\* or 500 when the answer has no body or the call failed.
FileReturn(outcome) ==
    /\ download.pc = "get"
    /\ outcome = "ok" => finalKey(download.jobId) \in DOMAIN dest
    /\ download' =
          [download EXCEPT
              !.pc = "done",
              !.code = IF outcome = "ok" THEN 200 ELSE 500,
              !.body =
                  IF outcome = "ok"
                  THEN [stream |-> dest[finalKey(download.jobId)].Body,
                        contentType |-> <<"application/zip">>,
                        contentDisposition |->
                            <<"attachment; filename=">> \o finalKey(download.jobId)]
                  ELSE IF outcome = "nobody"
                  THEN [error |-> <<"Internal Server Error">>,
                        message |-> <<"File not found in storage">>]
                  ELSE [error |-> <<"Internal Server Error">>,
                        message |-> <<"Failed to download file">>]]
    /\ UNCHANGED <<pipelineVars, preRestart, restarts, subs, events, poll, replies>>

(* ------------------- specifications with readers ---------------------- *)
\* a row an earlier process left in the table for a job of one key
StoredRow(jobId, status) ==
    [job_id |-> jobId, status |-> status,
     file_keys |-> JsonStringify(<<KeyName(1)>>),
     progress |-> CASE status = "queued" -> 0
                    [] status = "processing" -> 25
                    [] status = "completed" -> 100
                    [] OTHER -> 0,
     files_completed |-> IF status \in {"processing", "completed"} THEN 1 ELSE 0,
     total_files |-> 1,
     download_url |-> IF status = "completed" THEN PresignedUrl(jobId) ELSE Undefined,
     error |-> IF status = "failed"
               THEN CollectMessage(KeyName(1), S3ErrorMessage) ELSE Undefined]

\* the file at DB_PATH as the process finds it: empty, or with such a row
StoredTables ==
    {<<>>} \cup {(id :> StoredRow(id, status)) :
                    id \in StoredIds,
                    status \in {"queued", "processing", "completed", "failed"}}

InitStored ==
    /\ db \in StoredTables
    /\ jobs = <<>>
    /\ task = [id \in JobIds |-> NoTask]
    /\ dest = <<>>
    /\ storeLog = [id \in JobIds |-> <<>>]
    /\ statusHist = [id \in JobIds |-> <<>>]
    /\ progHist = [id \in JobIds |-> <<>>]
    /\ dbFailed = {}
    /\ preRestart = <<>>
    /\ restarts = 0
    /\ subs = [c \in SubIds |-> NoSub]
    /\ events = [c \in SubIds |-> <<>>]
    /\ poll = NoPoll
    /\ replies = [id \in JobIds |-> NoReply]
    /\ download = NoDownload

\* one job, none of whose table writes throws
Watched == "j1"

WatchedIntake ==
    \E r \in Requests(MaxWatchedKeys), h \in SUBSET {KeyName(1)} :
        Initiate(Watched, r, Range(r) \ h, FALSE)

WatchedStep ==
    \/ \E outcome \in GetOutcomes : FetchReturn(Watched, outcome, FALSE, FALSE, FALSE)
    \/ \E outcome \in {"end", "error"} : ArchiveReturn(Watched, outcome, FALSE, FALSE)
    \/ \E outcome \in {"ok", "error"} : PutReturn(Watched, outcome, FALSE)
    \/ \E outcome \in {"ok", "error"} : PresignReturn(Watched, outcome, FALSE)
    \/ RejectionCallback(Watched, FALSE)

\* the status endpoint asked while a job runs
NextPoll ==
    \/ \E r \in Requests(MaxWatchedKeys), t \in BOOLEAN :
          Initiate(Watched, r, Range(r), t)
    \/ Step(Watched)
    \/ \E id \in JobIds \cup StoredIds : StatusPoll(id)

SpecPoll == InitStored /\ [][NextPoll]_vars

\* the connection of the specifications with one subscriber
Watcher == "s1"

\* an SSE connection opened, served and dropped while a job runs
NextSub ==
    \/ WatchedIntake
    \/ WatchedStep
    \/ \E id \in {Watched} \cup StoredIds : Subscribe(Watcher, id)
    \/ NotFoundWritten(Watcher)
    \/ SnapshotWritten(Watcher)
    \/ Tick(Watcher)
    \/ TickWritten(Watcher)
    \/ Disconnect(Watcher)

SpecSub == Init /\ [][NextSub]_vars

\* the same, started on a table that may hold a row of an earlier process
SpecSubStored == InitStored /\ [][NextSub]_vars

\* a request of one key
CrowdIntake ==
    \E h \in SUBSET {KeyName(1)} :
        Initiate(Watched, <<KeyName(1)>>, {KeyName(1)} \ h, FALSE)

\* every connection opened on the one job of one key, served and dropped
\* while it runs; the writes of a connection resolve within the timer period
NextCrowd ==
    \/ CrowdIntake
    \/ WatchedStep
    \/ \E c \in SubIds : Subscribe(c, Watched)
    \/ \E c \in SubIds : NotFoundWritten(c)
    \/ \E c \in SubIds : SnapshotWritten(c)
    \/ \E c \in SubIds : subs[c].pending = 0 /\ Tick(c)
    \/ \E c \in SubIds : TickWritten(c)
    \/ \E c \in SubIds : Disconnect(c)

SpecCrowd == Init /\ [][NextCrowd]_vars

\* the file endpoint asked while a job runs
NextFile ==
    \/ WatchedIntake
    \/ WatchedStep
    \/ \E id \in {Watched} \cup StoredIds : FileRequest(id)
    \/ \E outcome \in {"ok", "nobody", "error"} : FileReturn(outcome)

SpecFile == InitStored /\ [][NextFile]_vars

(* ------------------------------- claims ------------------------------- *)
Last(seq) == seq[Len(seq)]

Finished(id) == task[id].pc \in {"resolved", "rejected", "handled"}

\* C1: every value assigned to a job's status follows the previous one along
\* queued -> processing, processing -> completed or processing -> failed, or
\* repeats it (the rejection callback writes failed over failed); the cached
\* status is the last value assigned.
C1_StatusTransitions ==
    \A id \in JobIds :
        /\ \A k \in 1..(Len(statusHist[id]) - 1) :
              \/ statusHist[id][k + 1] = statusHist[id][k]
              \/ <<statusHist[id][k], statusHist[id][k + 1]>> \in
                    {<<"queued", "processing">>, <<"processing", "completed">>,
                     <<"processing", "failed">>}
        /\ id \in DOMAIN jobs =>
              /\ statusHist[id] # <<>>
              /\ statusHist[id][1] = "queued"
              /\ jobs[id].status = Last(statusHist[id])

\* a job failed by its task and failed again by the rejection callback
C1_Witness ==
    \E id \in JobIds :
        statusHist[id] = <<"queued", "processing", "failed", "failed">>

\* C2: a queued or processing job has neither downloadUrl nor error, a
\* completed job has a downloadUrl and no error, a failed job has an error
\* and no downloadUrl.
C2_ResultFields ==
    \A id \in DOMAIN jobs :
        LET job == jobs[id]
        IN  /\ job.status \in {"queued", "processing"} =>
                job.downloadUrl = Undefined /\ job.error = Undefined
            /\ job.status = "completed" =>
                job.downloadUrl # Undefined /\ job.error = Undefined
            /\ job.status = "failed" =>
                job.error # Undefined /\ job.downloadUrl = Undefined

\* one job completed while another has failed
C2_Witness ==
    \E a, b \in DOMAIN jobs :
        /\ jobs[a].status = "completed" /\ jobs[a].downloadUrl = PresignedUrl(a)
        /\ jobs[b].status = "failed" /\ jobs[b].error # Undefined

\* C3: every value assigned to a job's progress is an integer in 0..100 and
\* is at least the value assigned before it (the first at least the initial
\* 0); the cached progress is the last value assigned.
C3_ProgressMonotonic ==
    \A id \in JobIds :
        /\ \A k \in 1..Len(progHist[id]) : progHist[id][k] \in 0..100
        /\ \A k \in 1..(Len(progHist[id]) - 1) :
              progHist[id][k] <= progHist[id][k + 1]
        /\ id \in DOMAIN jobs =>
              jobs[id].progress =
                 IF progHist[id] = <<>> THEN 0 ELSE Last(progHist[id])

\* a job that failed past Collect, after the rejection callback has run
C3_Witness ==
    \E id \in DOMAIN jobs :
        /\ task[id].pc = "handled"
        /\ jobs[id].status = "failed"
        /\ jobs[id].progress = 50
        /\ Len(progHist[id]) >= 3

JobTerminal(id) ==
    /\ id \in DOMAIN jobs
    /\ \/ /\ jobs[id].status = "completed"
          /\ jobs[id].progress = 100
          /\ jobs[id].downloadUrl # Undefined
       \/ /\ jobs[id].status = "failed"
          /\ jobs[id].error # Undefined

\* C4: when every answer a task waits for arrives, a job whose task was
\* launched eventually is completed (progress 100, downloadUrl set) or
\* failed (error set).
C4_EventuallyTerminal ==
    \A id \in JobIds : (task[id].pc # "none") ~> JobTerminal(id)

\* a task that went through all four phases
C4_Witness ==
    \E id \in DOMAIN jobs :
        /\ task[id].pc = "resolved"
        /\ JobTerminal(id)
        /\ Len(storeLog[id]) = jobs[id].totalFiles + 2
        /\ progHist[id] = <<25, 30, 50, 75, 100>>

\* C5: when a GetObject of a job is answered with an error, without a body
\* or with no bytes, the job is failed, its error holds that key, it has no
\* downloadUrl, no PutObject was issued for it and the downloads bucket has
\* no object under its final key.
C5_MissingKeyFails ==
    \A id \in DOMAIN jobs :
        \A k \in 1..Len(storeLog[id]) :
            (storeLog[id][k].op = "get"
               /\ storeLog[id][k].res \in {"error", "nobody", "empty"}) =>
                /\ jobs[id].status = "failed"
                /\ storeLog[id][k].key \in Range(jobs[id].error)
                /\ jobs[id].downloadUrl = Undefined
                /\ \A j \in 1..Len(storeLog[id]) : storeLog[id][j].op # "put"
                /\ finalKey(id) \notin DOMAIN dest

\* the second of two keys is answered by a store error
C5_Witness ==
    \E id \in DOMAIN jobs :
        /\ Len(storeLog[id]) = 2
        /\ storeLog[id][1].res = "ok"
        /\ storeLog[id][2].res = "error"
        /\ jobs[id].filesCompleted = 1

ExactRound(i, n) == (50 * i + n) \div (2 * n)

NoStoreFailure(id) ==
    /\ Finished(id)
    /\ \A k \in 1..Len(storeLog[id]) : storeLog[id][k].res = "ok"
    /\ jobs[id].error # ArchiverErrorMessage

\* C7 (as claimed): a job of n keys none of whose store operations failed
\* has been assigned the progress values round(1/n*25), ..., 25, 30, 50, 75,
\* 100 in that order and is completed with a downloadUrl.
C7_HappyPathSequence ==
    \A id \in DOMAIN jobs :
        NoStoreFailure(id) =>
            /\ progHist[id] =
                  [i \in 1..jobs[id].totalFiles |->
                      ExactRound(i, jobs[id].totalFiles)] \o <<30, 50, 75, 100>>
            /\ jobs[id].status = "completed"
            /\ jobs[id].downloadUrl # Undefined

\* C8 (as claimed): during Collect, after the i-th key filesCompleted = i and
\* the i-th progress value is (50*i + n) div (2*n), within 0..25 and 25
\* exactly for i = n.
C8_CollectProgressExact ==
    \A id \in DOMAIN jobs :
        LET n == jobs[id].totalFiles
        IN  /\ task[id].pc = "fetch" => jobs[id].filesCompleted = task[id].i
            /\ \A i \in 1..jobs[id].filesCompleted :
                  /\ progHist[id][i] = ExactRound(i, n)
                  /\ progHist[id][i] \in 0..25
                  /\ progHist[id][i] = 25 <=> i = n

\* C9 (as claimed): every job id in the cache has a record in the table.
C9_CreatedInBoth ==
    \A id \in DOMAIN jobs : id \in DOMAIN db

\* C10 (as claimed): after a restart, a job that was completed or failed
\* when the process stopped, none of whose table writes threw, is found by
\* the lookup with that status, downloadUrl and error.
C10_SurvivesRestart ==
    \A id \in DOMAIN preRestart :
        (restarts > 0 /\ Terminal(preRestart[id].status) /\ id \notin dbFailed) =>
            /\ RegistryGet(id) # Undefined
            /\ RegistryGet(id).status = preRestart[id].status
            /\ RegistryGet(id).downloadUrl = preRestart[id].downloadUrl
            /\ RegistryGet(id).error = preRestart[id].error

\* C11 (as claimed): a job whose GetObject, archive, PutObject and presign
\* all succeeded is completed in the cache, whichever of its table writes
\* threw.
C11_DurableFailureHarmless ==
    \A id \in DOMAIN jobs :
        NoStoreFailure(id) => jobs[id].status = "completed"

\* C12 (as claimed): a job none of whose table writes threw has a row in the
\* table with the status, progress, filesCompleted, downloadUrl and error of
\* its cached record.
C12_DurableMatchesCache ==
    \A id \in DOMAIN jobs :
        id \notin dbFailed =>
            /\ id \in DOMAIN db
            /\ \A f \in {"status", "progress", "filesCompleted", "downloadUrl",
                          "error"} :
                  getJob(db, id)[f] = jobs[id][f]

\* C13 (as claimed): the status endpoint answers through the lookup of the
\* subscribe handler: 200 with the fields of the cached record, else of the
\* table row, and 404 only when the id is in neither.
C13_PollThroughRegistry ==
    [][poll'.count # poll.count =>
          LET id == poll'.jobId
          IN  IF id \in DOMAIN jobs \/ id \in DOMAIN db
              THEN /\ poll'.code = 200
                   /\ \A f \in {"status", "progress", "filesCompleted",
                                 "totalFiles"} :
                         poll'.body[f] = RegistryGet(id)[f]
              ELSE poll'.code = 404]_vars

\* C14: a request to the status endpoint leaves every job record, the table,
\* the buckets, the log of store calls and every task as they were.
C14_PollChangesNothing ==
    [][poll'.count # poll.count =>
          UNCHANGED <<jobs, db, task, dest, storeLog, statusHist, progHist,
                      dbFailed>>]_vars

\* the endpoint has answered 200 for a job whose task waits for the archive
C14_Witness ==
    /\ poll.count > 0
    /\ poll.code = 200
    /\ poll.jobId = Watched
    /\ task[Watched].pc = "archive"

\* C15 (as claimed): a connection opened on a completed job, once its writes
\* have settled, has been sent a complete event whose downloadUrl is the one
\* the status endpoint answers with.
C15_CompleteOnLateAttach ==
    \A c \in SubIds :
        (subs[c].pc = "polling" /\ subs[c].pending = 0
           /\ events[c][1].data.status = "completed") =>
            \E k \in 1..Len(events[c]) :
                /\ events[c][k].event = "complete"
                /\ "downloadUrl" \in DOMAIN events[c][k].data
                /\ events[c][k].data.downloadUrl =
                      StatusResponse(StatusLookup(jobs, db, subs[c].jobId)).body.downloadUrl

\* C16 (as claimed): every event written carries the name of the status in
\* its data: progress for processing, complete with a downloadUrl for
\* completed, error with an error for failed.
C16_KindMatchesStatus ==
    \A c \in SubIds :
        \A k \in 1..Len(events[c]) :
            LET e == events[c][k]
            IN  "status" \in DOMAIN e.data =>
                    /\ e.data.status = "processing" => e.event = "progress"
                    /\ e.data.status = "completed" =>
                          e.event = "complete" /\ "downloadUrl" \in DOMAIN e.data
                    /\ e.data.status = "failed" =>
                          e.event = "error" /\ "error" \in DOMAIN e.data

\* C17 (as claimed): two events written one after the other on a connection
\* differ in status or in progress.
C17_NoRepeatedSnapshot ==
    \A c \in SubIds :
        \A k \in 1..(Len(events[c]) - 1) :
            \/ events[c][k].data.status # events[c][k + 1].data.status
            \/ events[c][k].data.progress # events[c][k + 1].data.progress

\* C18 (as claimed): a connection that has been sent a completed or failed
\* snapshot has no interval set.
C18_TerminalStopsPolling ==
    \A c \in SubIds :
        (\E k \in 1..Len(events[c]) :
            /\ "status" \in DOMAIN events[c][k].data
            /\ Terminal(events[c][k].data.status)) =>
            ~subs[c].interval

\* C19 (as claimed): a connection whose client has gone has no interval set
\* and has been sent nothing since.
C19_DisconnectStopsAll ==
    \A c \in SubIds :
        subs[c].aborted =>
            /\ ~subs[c].interval
            /\ Len(events[c]) = subs[c].sentAtAbort

\* C20: opening a connection on an id that is neither in the map nor in the
\* table writes the not-found event and nothing after it, sets no interval
\* and leaves the map as it was; on any other id the first event written is
\* a snapshot with the status, progress, filesCompleted and totalFiles the
\* lookup gives at that moment.
C20_AttachFirstEvent ==
    /\ [](\A c \in SubIds :
            subs[c].pc \in {"notfound", "closed"} =>
                /\ events[c] = <<NotFoundEvent>>
                /\ ~subs[c].interval
                /\ subs[c].pending = 0)
    /\ [][\A c \in SubIds :
            (subs[c].pc = "idle" /\ subs'[c].pc # "idle") =>
                LET id == subs'[c].jobId
                IN  IF id \notin DOMAIN jobs /\ id \notin DOMAIN db
                    THEN subs'[c].pc = "notfound" /\ jobs' = jobs
                    ELSE /\ subs'[c].pc = "snapshot"
                         /\ Len(events'[c]) = 1
                         /\ \A f \in {"status", "progress", "filesCompleted",
                                       "totalFiles"} :
                               /\ events'[c][1].data[f] = RegistryGet(id)[f]
                               /\ events'[c][1].data[f] = jobs'[id][f]]_vars

\* the not-found event written and settled while the map holds another job
C20_Witness ==
    \E c \in SubIds :
        /\ subs[c].pc = "closed"
        /\ events[c] = <<NotFoundEvent>>
        /\ subs[c].jobId \notin DOMAIN jobs
        /\ DOMAIN jobs = {Watched}

\* C22: the initiate handler answers in the step that creates the job: at
\* that moment the job is queued or processing, its task is suspended at its
\* first GetObject and no store call of it has been answered; the answer is
\* 200 with the job id, status queued, totalFiles and the two URLs; it is
\* never taken back or altered, whatever becomes of the task.
C22_ReplyBeforePipeline ==
    /\ [](\A id \in JobIds : id \in DOMAIN jobs <=> replies[id].code = 200)
    /\ [][\A id \in JobIds :
            /\ replies[id].code # 0 => replies'[id] = replies[id]
            /\ (replies[id].code = 0 /\ replies'[id].code = 200) =>
                  /\ jobs'[id].status \in {"queued", "processing"}
                  /\ task'[id].pc = "fetch"
                  /\ \A k \in 1..Len(storeLog'[id]) :
                        storeLog'[id][k].res = "pending"
                  /\ replies'[id].code = 200
                  /\ replies'[id].body =
                        [jobId |-> id, status |-> "queued",
                         totalFiles |-> Len(jobs'[id].fileKeys),
                         subscribeUrl |-> <<"/v1/download/subscribe/", id>>,
                         statusUrl |-> <<"/v1/download/status/", id>>]]_vars

\* a job answered with status queued whose first GetObject then failed
C22_Witness ==
    \E id \in DOMAIN jobs :
        /\ replies[id].code = 200
        /\ replies[id].body.status = "queued"
        /\ jobs[id].status = "failed"
        /\ jobs[id].filesCompleted = 0
        /\ Len(storeLog[id]) = 1

\* the runs of the one job when nothing but its own task runs: the state of
\* the task after the initiate handler, and what each answer makes of it
SoloStart ==
    {Respond(IssueGet(StartProcessing(
                CreateJob([job |-> Undefined, db |-> <<>>, task |-> NoTask,
                           log |-> <<>>, statuses |-> <<>>, progresses |-> <<>>,
                           threw |-> FALSE, dest |-> <<>>, reply |-> NoReply],
                          Watched, r), FALSE)), Watched, r) :
        r \in {<<KeyName(1)>>}}

SoloNext(s) ==
    CASE s.task.pc = "fetch" ->
            {Collect(s, outcome, FALSE, FALSE, FALSE) : outcome \in GetOutcomes}
      [] s.task.pc = "archive" ->
            {Archive(s, outcome, FALSE, FALSE) : outcome \in {"end", "error"}}
      [] s.task.pc = "put" -> {Upload(s, outcome, FALSE) : outcome \in {"ok", "error"}}
      [] s.task.pc = "presign" ->
            {Publish(s, outcome, FALSE) : outcome \in {"ok", "error"}}
      [] s.task.pc = "rejected" -> {Rejected(s, TRUE, FALSE)}
      [] OTHER -> {}

RECURSIVE SoloReach(_, _)
SoloReach(frontier, seen) ==
    IF frontier = {} THEN seen
    ELSE LET next == UNION {SoloNext(s) : s \in frontier}
         IN  SoloReach(next \ seen, seen \cup next)

\* what a run shows of the job: its record, its task, its store calls and
\* every status and progress value it was assigned, in order
RunView(s) == <<s.job, s.task, s.log, s.statuses, s.progresses>>

SoloViews == {RunView(s) : s \in SoloReach(SoloStart, SoloStart)}

\* C21: a step of a subscription (attach, settled write, interval callback,
\* disconnect) leaves every cached job record, every task, the store calls,
\* the buckets and the table as they were; and with connections attaching
\* and going at any point the job, its task and the status and progress
\* values it has been assigned are always those of a run without any
\* connection.
C21_SubscribersLeaveTask ==
    /\ [](Watched \in DOMAIN jobs => RunView(Load(Watched)) \in SoloViews)
    /\ [][(subs' # subs \/ events' # events) =>
            /\ UNCHANGED <<task, storeLog, statusHist, progHist, dest, db,
                           dbFailed, replies>>
            /\ \A id \in DOMAIN jobs : jobs'[id] = jobs[id]]_vars

\* two connections on a completed job, one gone and one still polling
C21_Witness ==
    /\ Watched \in DOMAIN jobs
    /\ jobs[Watched].status = "completed"
    /\ subs["s1"].aborted /\ Len(events["s1"]) >= 2
    /\ subs["s2"].pc = "polling" /\ ~subs["s2"].aborted

\* the message of a store call that failed
Cause(entry) ==
    CASE entry.res = "nobody" -> NoBodyMessage(entry.key)
      [] entry.res = "empty" -> EmptyMessage(entry.key)
      [] OTHER -> S3ErrorMessage

Contains(message, part) ==
    \E o \in 0..(Len(message) - Len(part)) :
        SubSeq(message, o + 1, o + Len(part)) = part

\* C23: the store calls of a job are, in this order, one GetObject per
\* element of its key list, one PutObject and one presign, each issued once
\* and only after every call before it was answered ok; a call that fails
\* is the last call of the job, which is failed with an error holding the
\* message of that failure; and a job failed by the archive has issued no
\* PutObject.
C23_NoRetry ==
    \A id \in DOMAIN jobs :
        LET log == storeLog[id]
            job == jobs[id]
        IN  /\ Len(log) <= job.totalFiles + 2
            /\ \A k \in 1..Len(log) :
                  /\ k < Len(log) => log[k].res = "ok"
                  /\ IF k <= job.totalFiles
                     THEN log[k].op = "get" /\ log[k].key = job.fileKeys[k]
                     ELSE IF k = job.totalFiles + 1
                     THEN log[k].op = "put" /\ log[k].key = finalKey(id)
                     ELSE log[k].op = "presign" /\ log[k].key = finalKey(id)
                  /\ log[k].res \notin {"ok", "pending"} =>
                        /\ job.status = "failed"
                        /\ Contains(job.error, Cause(log[k]))
            /\ job.error = ArchiverErrorMessage =>
                  job.status = "failed" /\ Len(log) = job.totalFiles

\* a job failed by its PutObject, after the rejection callback
C23_Witness ==
    \E id \in DOMAIN jobs :
        /\ task[id].pc = "handled"
        /\ Len(storeLog[id]) = jobs[id].totalFiles + 1
        /\ Last(storeLog[id]).res = "error"
        /\ jobs[id].error = S3ErrorMessage

\* C24: a task that has ended, by return or by throw, holds no collected
\* file, and neither does the task of any job that is completed or failed.
C24_ArtifactsReleased ==
    \A id \in DOMAIN jobs :
        (Finished(id) \/ Terminal(jobs[id].status)) => task[id].tempFiles = <<>>

\* a task that held the files of two keys and threw once the archive was built
C24_Witness ==
    \E id \in DOMAIN jobs :
        /\ task[id].pc = "rejected"
        /\ jobs[id].filesCompleted = 2
        /\ jobs[id].progress = 50
        /\ Len(task[id].archiveBuffer) = 2
        /\ task[id].tempFiles = <<>>

\* C25: when the task of a cached job has ended, by return or by throw, the
\* job is completed or failed.
C25_NeverEndsSilently ==
    \A id \in DOMAIN jobs :
        Finished(id) => jobs[id].status \in {"completed", "failed"}

\* a task ended by the exception of the table write at checkpoint 30
C25_Witness ==
    \E id \in DOMAIN jobs :
        /\ Finished(id)
        /\ jobs[id].status = "failed"
        /\ jobs[id].error = SqliteErrorMessage
        /\ jobs[id].progress = 30

\* the answers a task has had to its store calls, in order
Responses(id) ==
    [k \in 1..Len(storeLog[id]) |-> <<storeLog[id][k].op, storeLog[id][k].res>>]

\* C26: a step changes the task of at most one job, and the cached record
\* of a job changes only in a step of its own task; and two jobs of the
\* same keys whose tasks stand at the same point after the same answers to
\* their own store calls, no table write of either having thrown, have the
\* same status, progress, filesCompleted and error, and both or neither a
\* downloadUrl.
C26_JobsIndependent ==
    /\ [](\A a, b \in DOMAIN jobs :
            (/\ jobs[a].fileKeys = jobs[b].fileKeys
             /\ Responses(a) = Responses(b)
             /\ task[a].pc = task[b].pc
             /\ a \notin dbFailed /\ b \notin dbFailed) =>
                /\ \A f \in {"status", "progress", "filesCompleted", "error"} :
                      jobs[a][f] = jobs[b][f]
                /\ jobs[a].downloadUrl = Undefined <=> jobs[b].downloadUrl = Undefined)
    /\ [][/\ \A a, b \in JobIds :
              (task'[a] # task[a] /\ task'[b] # task[b]) => a = b
          /\ \A b \in DOMAIN jobs :
              (task'[b] = task[b] /\ storeLog'[b] = storeLog[b]) =>
                  jobs'[b] = jobs[b]]_vars

\* two jobs of the same two keys, one completed while the other failed at
\* its second GetObject
C26_Witness ==
    \E a, b \in DOMAIN jobs :
        /\ jobs[a].fileKeys = jobs[b].fileKeys
        /\ jobs[a].totalFiles = 2
        /\ jobs[a].status = "completed"
        /\ jobs[b].status = "failed" /\ jobs[b].filesCompleted = 1

\* C27: a cached job keeps its key list and its totalFiles in every step and
\* its filesCompleted never goes down; in every state totalFiles is the
\* length of the key list and filesCompleted is within 0..totalFiles.
C27_CountersAndKeys ==
    /\ [](\A id \in DOMAIN jobs :
            /\ jobs[id].totalFiles = Len(jobs[id].fileKeys)
            /\ jobs[id].filesCompleted \in 0..jobs[id].totalFiles)
    /\ [][\A id \in DOMAIN jobs :
            /\ id \in DOMAIN jobs'
            /\ jobs'[id].fileKeys = jobs[id].fileKeys
            /\ jobs'[id].totalFiles = jobs[id].totalFiles
            /\ jobs'[id].filesCompleted >= jobs[id].filesCompleted]_vars

\* a job of two keys, one of them repeated, both occurrences collected
C27_Witness ==
    \E id \in DOMAIN jobs :
        /\ jobs[id].fileKeys = <<KeyName(2), KeyName(2)>>
        /\ jobs[id].filesCompleted = 2
        /\ jobs[id].totalFiles = 2

\* C28: the GetObject calls of a job are those of the first elements of its
\* key list, in list order, each issued after every one before it was
\* answered ok; at most one store call of a job is unanswered; while the
\* call for element g is unanswered the task holds the files of elements
\* 1..g-1 in order and filesCompleted and progress are those of g-1; and a
\* GetObject that failed is the last store call of the job.
C28_SequentialFetch ==
    \A id \in DOMAIN jobs :
        LET log == storeLog[id]
            job == jobs[id]
            g == Len(log)
        IN  /\ Cardinality({k \in 1..g : log[k].res = "pending"}) <= 1
            /\ \A k \in 1..g :
                  log[k].op = "get" =>
                      /\ k <= job.totalFiles
                      /\ log[k].key = job.fileKeys[k]
                      /\ \A j \in 1..(k - 1) :
                            log[j].op = "get" /\ log[j].res = "ok"
                      /\ log[k].res \in {"error", "nobody", "empty"} => k = g
            /\ task[id].pc = "fetch" =>
                  /\ g >= 1 /\ log[g].op = "get" /\ log[g].res = "pending"
                  /\ job.filesCompleted = g - 1
                  /\ Len(task[id].tempFiles) = g - 1
                  /\ \A j \in 1..(g - 1) :
                        task[id].tempFiles[j].key = job.fileKeys[j]
                  /\ job.progress =
                        IF g = 1 THEN 0 ELSE ProgressTable[job.totalFiles][g - 1]

\* the second GetObject of a job unanswered, the first file in hand
C28_Witness ==
    \E id \in DOMAIN jobs :
        /\ task[id].pc = "fetch"
        /\ Len(storeLog[id]) = 2
        /\ storeLog[id][1].res = "ok"
        /\ Len(task[id].tempFiles) = 1
        /\ jobs[id].filesCompleted = 1

\* the files the source bucket holds for the key list of a job, as entries
SourceEntries(fileKeys) ==
    [j \in 1..Len(fileKeys) |->
        [name |-> fileKeys[j], data |-> streamToBuffer(SourceChunks(fileKeys[j]))]]

\* C30: the archive a job sends with its PutObject, and the object the
\* downloads bucket holds under its final key, has one entry per element of
\* the key list, in list order, named by that key and holding the bytes the
\* source bucket holds for it.
C30_ArchiveContents ==
    \A id \in DOMAIN jobs :
        /\ task[id].pc = "put" =>
              task[id].archiveBuffer = SourceEntries(jobs[id].fileKeys)
        /\ finalKey(id) \in DOMAIN dest =>
              /\ dest[finalKey(id)].Body = SourceEntries(jobs[id].fileKeys)
              /\ Len(dest[finalKey(id)].Body) = jobs[id].totalFiles

\* the uploaded archive of a job of two different keys
C30_Witness ==
    \E id \in DOMAIN jobs :
        /\ finalKey(id) \in DOMAIN dest
        /\ Len(dest[finalKey(id)].Body) = 2
        /\ dest[finalKey(id)].Body[1].name = KeyName(2)
        /\ dest[finalKey(id)].Body[2].name = KeyName(1)

\* C29: a job that has been assigned progress 50 or has issued its PutObject
\* has had the end event of its archive, with every collected file appended;
\* a task still collecting or waiting for the archive has progress below 50,
\* no archive bytes and no PutObject; and a job failed by an archive error
\* never got progress 50, issued no PutObject and has no object under its
\* final key.
C29_ArchiveEndFirst ==
    \A id \in DOMAIN jobs :
        LET putIssued == \E k \in 1..Len(storeLog[id]) : storeLog[id][k].op = "put"
        IN  /\ (50 \in Range(progHist[id]) \/ putIssued) =>
                  /\ task[id].pc \notin {"fetch", "archive"}
                  /\ Len(task[id].archiveBuffer) = jobs[id].totalFiles
                  /\ \A j \in 1..jobs[id].totalFiles :
                        task[id].archiveBuffer[j].name = jobs[id].fileKeys[j]
            /\ task[id].pc \in {"fetch", "archive"} =>
                  /\ jobs[id].progress < 50
                  /\ task[id].archiveBuffer = <<>>
                  /\ ~putIssued
            /\ jobs[id].error = ArchiverErrorMessage =>
                  /\ jobs[id].status = "failed"
                  /\ 50 \notin Range(progHist[id])
                  /\ ~putIssued
                  /\ finalKey(id) \notin DOMAIN dest

\* a job of two keys failed by the error event of its archive
C29_Witness ==
    \E id \in DOMAIN jobs :
        /\ jobs[id].error = ArchiverErrorMessage
        /\ jobs[id].filesCompleted = 2
        /\ jobs[id].progress = 30
        /\ Finished(id)

\* C31: the only write a job issues to the downloads bucket is one PutObject
\* at most, under the key made of its own id and ".zip"; the PutObject keys
\* of two jobs differ; and the object under a job's key is the one that job
\* sent, whatever the other jobs did since.
C31_OwnKeyOnce ==
    \A id \in JobIds :
        LET puts(a) == {k \in 1..Len(storeLog[a]) : storeLog[a][k].op = "put"}
        IN  /\ Cardinality(puts(id)) <= 1
            /\ \A k \in 1..Len(storeLog[id]) :
                  /\ storeLog[id][k].op \in {"get", "put", "presign"}
                  /\ storeLog[id][k].op = "get" => storeLog[id][k].bucket = "source"
                  /\ storeLog[id][k].op = "put" =>
                        /\ storeLog[id][k].bucket = "downloads"
                        /\ storeLog[id][k].key = <<id, ".zip">>
            /\ \A b \in JobIds \ {id} :
                  \A k \in puts(id), l \in puts(b) :
                      storeLog[id][k].key # storeLog[b][l].key
            /\ <<id, ".zip">> \in DOMAIN dest =>
                  /\ puts(id) # {}
                  /\ dest[<<id, ".zip">>].Metadata.jobId = id
                  /\ dest[<<id, ".zip">>].Body = task[id].archiveBuffer
        /\ DOMAIN dest \subseteq {<<a, ".zip">> : a \in JobIds}

\* two jobs of different key lists have both uploaded their archives
C31_Witness ==
    /\ \A id \in JobIds : <<id, ".zip">> \in DOMAIN dest
    /\ dest[<<"j1", ".zip">>].Body # dest[<<"j2", ".zip">>].Body
    /\ dest[<<"j1", ".zip">>].Metadata.jobId = "j1"
    /\ dest[<<"j2", ".zip">>].Metadata.jobId = "j2"

\* a job of one key observed by one SSE connection and by status requests
NextObserve ==
    \/ CrowdIntake
    \/ WatchedStep
    \/ Subscribe(Watcher, Watched)
    \/ NotFoundWritten(Watcher)
    \/ SnapshotWritten(Watcher)
    \/ Tick(Watcher)
    \/ TickWritten(Watcher)
    \/ Disconnect(Watcher)
    \/ StatusPoll(Watched)

SpecObserve == Init /\ [][NextObserve]_vars

C33_StatusProgressCoupled ==
    \A id \in DOMAIN jobs :
        LET Coupled(v) ==
                /\ v.status = "completed" <=> v.progress = 100
                /\ v.status = "failed" => v.progress \in (0..25) \cup {30, 50, 75}
                /\ v.progress >= 30 => v.filesCompleted = v.totalFiles
        IN  /\ Coupled(jobs[id])
            /\ jobs[id].status = "completed" <=> jobs[id].downloadUrl # Undefined
            /\ Coupled(StatusResponse(StatusLookup(jobs, db, id)).body)
            /\ StatusResponse(StatusLookup(jobs, db, id)).body.status = "completed"
                  <=> "downloadUrl" \in DOMAIN StatusResponse(StatusLookup(jobs, db, id)).body
            /\ Coupled(InitialEvent(jobs[id]).data)
            /\ Coupled(PollEvent(jobs[id]).data)
            /\ PollEvent(jobs[id]).data.status = "completed"
                  <=> "downloadUrl" \in DOMAIN PollEvent(jobs[id]).data

\* a completed job beside a job that failed at its presign with progress 75
C33_Witness ==
    \E a, b \in DOMAIN jobs :
        /\ jobs[a].status = "completed" /\ jobs[a].progress = 100
        /\ jobs[a].filesCompleted = 2
        /\ jobs[b].status = "failed" /\ jobs[b].progress = 75
        /\ jobs[b].filesCompleted = jobs[b].totalFiles

\* C34 as claimed: at every point where another handler can run, the
\* downloads bucket holds an object under a job's key exactly when the job's
\* progress is 75 or 100, and a job that failed with a lower progress has no
\* object.
C34_ObjectIffUploaded ==
    \A id \in DOMAIN jobs :
        /\ <<id, ".zip">> \in DOMAIN dest <=> jobs[id].progress \in {75, 100}
        /\ jobs[id].status = "failed" /\ jobs[id].progress < 75 =>
              <<id, ".zip">> \notin DOMAIN dest

\* C34 as amended: a job whose progress is 75 or 100 has its object in the
\* bucket (so every completed job has one, and a job failed at the presign
\* has one); an object under a job's key means the job has sent its
\* PutObject, with progress 50 or more and the whole archive as the body;
\* a job that failed before sending it has none.
C34_UploadedHasObject ==
    \A id \in DOMAIN jobs :
        LET putIssued == \E k \in 1..Len(storeLog[id]) : storeLog[id][k].op = "put"
        IN  /\ jobs[id].progress \in {75, 100} => <<id, ".zip">> \in DOMAIN dest
            /\ jobs[id].status = "completed" => <<id, ".zip">> \in DOMAIN dest
            /\ <<id, ".zip">> \in DOMAIN dest =>
                  /\ putIssued
                  /\ jobs[id].progress >= 50
                  /\ Len(dest[<<id, ".zip">>].Body) = jobs[id].totalFiles
            /\ jobs[id].status = "failed" /\ ~putIssued =>
                  <<id, ".zip">> \notin DOMAIN dest

\* a job failed at the presign, its archive in the bucket, beside a job told
\* that its PutObject failed while the bucket holds the object
C34_Witness ==
    \E a, b \in DOMAIN jobs :
        /\ jobs[a].status = "failed" /\ jobs[a].progress = 75
        /\ <<a, ".zip">> \in DOMAIN dest
        /\ jobs[b].status = "failed" /\ jobs[b].progress = 50
        /\ Last(storeLog[b]).op = "put" /\ Last(storeLog[b]).res = "error"
        /\ <<b, ".zip">> \in DOMAIN dest

\* C35: the error of a job, once set, keeps its value; the step in which a
\* task fails sets it, for a job that had none, to the message of what the
\* task throws; the rejection callback runs for a job that is failed
\* already, assigns failed and that same message once more, and leaves the
\* record as it was; and a job whose callback has run has been assigned
\* failed exactly twice.
C35_ErrorWrittenTwiceSame ==
    /\ [][\A id \in DOMAIN jobs :
            /\ jobs[id].error # Undefined =>
                  id \in DOMAIN jobs' /\ jobs'[id].error = jobs[id].error
            /\ task[id].pc \notin {"rejected", "handled"}
               /\ task'[id].pc = "rejected" =>
                  /\ jobs[id].error = Undefined
                  /\ jobs[id].status = "processing"
                  /\ jobs'[id].status = "failed"
                  /\ jobs'[id].error = ErrorMessage(task'[id].thrown)
            /\ task[id].pc = "rejected" /\ task'[id].pc = "handled" =>
                  /\ jobs[id].status = "failed"
                  /\ jobs[id].error = ErrorMessage(task[id].thrown)
                  /\ statusHist'[id] = Append(statusHist[id], "failed")
                  /\ progHist'[id] = progHist[id]
                  /\ jobs'[id] = jobs[id]]_vars
    /\ [](\A id \in DOMAIN jobs :
            task[id].pc = "handled" =>
                Cardinality({k \in 1..Len(statusHist[id]) :
                                statusHist[id][k] = "failed"}) = 2)

\* the callback has run for a job whose PutObject failed at progress 50
C35_Witness ==
    \E id \in DOMAIN jobs :
        /\ task[id].pc = "handled"
        /\ jobs[id].status = "failed"
        /\ jobs[id].error = S3ErrorMessage
        /\ jobs[id].progress = 50

\* the elements of a key list that are in a set, in the order of the list
RECURSIVE Kept(_, _)
Kept(keys, ok) ==
    IF keys = <<>> THEN <<>>
    ELSE IF Head(keys) \in ok THEN <<Head(keys)>> \o Kept(Tail(keys), ok)
    ELSE Kept(Tail(keys), ok)

\* C36: a request none of whose keys passed its HeadObject is answered 400
\* and leaves no job in the map, no row in the table and no task; a request
\* with such keys creates the job of exactly those keys, in request order,
\* totalFiles their number, with its task started, and is answered 200; and
\* there is a job only for an accepted request and a task only for a job.
C36_IntakeKeepsValid ==
    /\ [](\A id \in JobIds :
            /\ replies[id].code \in {0, 200, 400}
            /\ replies[id].code = 400 =>
                  /\ replies[id].body.error = <<"Validation Error">>
                  /\ id \notin DOMAIN jobs
                  /\ id \notin DOMAIN db
                  /\ task[id].pc = "none"
                  /\ storeLog[id] = <<>>
            /\ id \in DOMAIN jobs =>
                  /\ replies[id].code = 200
                  /\ jobs[id].totalFiles = Len(jobs[id].fileKeys)
                  /\ jobs[id].totalFiles >= 1
                  /\ replies[id].body.totalFiles = jobs[id].totalFiles
            /\ task[id].pc # "none" => id \in DOMAIN jobs)
    /\ [][\A id \in JobIds, r \in Requests(MaxKeys), t \in BOOLEAN :
            \A h \in SUBSET Range(r) :
                Initiate(id, r, h, t) =>
                    IF Kept(r, h) = <<>>
                    THEN /\ replies'[id].code = 400
                         /\ jobs' = jobs /\ db' = db /\ task' = task
                         /\ storeLog' = storeLog
                    ELSE /\ replies'[id].code = 200
                         /\ DOMAIN jobs' = DOMAIN jobs \cup {id}
                         /\ jobs'[id].fileKeys = Kept(r, h)
                         /\ jobs'[id].totalFiles = Len(Kept(r, h))
                         /\ task'[id].pc = "fetch"
                         /\ \A b \in DOMAIN jobs : jobs'[b] = jobs[b]]_vars

\* one request rejected, and the job of another that lost its first key
C36_Witness ==
    \E a, b \in JobIds :
        /\ replies[a] = Rejection
        /\ a \notin DOMAIN jobs
        /\ b \in DOMAIN jobs
        /\ jobs[b].fileKeys = <<KeyName(2)>>
        /\ jobs[b].totalFiles = 1

\* C37, in the form a finite run decides: for a connection that was opened
\* on a job not yet completed or failed and has not been dropped, the
\* events named complete or error are at most one, each carries the
\* downloadUrl or error of the job, and the progress values of its events
\* never decrease; and once the job is completed or failed, no write is
\* pending and no callback can write again (the interval is cleared, or
\* lastProgress and lastStatus are those of the job), one such event has
\* been written.
C37_TerminalEventOnce ==
    \A c \in SubIds :
        LET id == subs[c].jobId
            ev == events[c]
            terminals == {k \in 1..Len(ev) : ev[k].event \in {"complete", "error"}}
        IN  (/\ subs[c].pc = "polling"
             /\ ~subs[c].aborted
             /\ ~Terminal(ev[1].data.status)) =>
                /\ Cardinality(terminals) <= 1
                /\ \A k \in terminals :
                      /\ Terminal(ev[k].data.status)
                      /\ ev[k].data.status = "completed" =>
                            ev[k].data.downloadUrl = jobs[id].downloadUrl
                      /\ ev[k].data.status = "failed" =>
                            ev[k].data.error = jobs[id].error
                /\ \A k \in 1..(Len(ev) - 1) :
                      ev[k].data.progress <= ev[k + 1].data.progress
                /\ (/\ Terminal(jobs[id].status)
                    /\ subs[c].pending = 0
                    /\ \/ ~subs[c].interval
                       \/ /\ subs[c].lastProgress = jobs[id].progress
                          /\ subs[c].lastStatus = jobs[id].status) =>
                      terminals # {}

\* C38: an id enters the map either with a job created by the initiate
\* handler or, on a subscribe request, as the copy of the row the table
\* holds for it, and then no task, store call or table write comes with it;
\* no step of a subscription changes a record the map already holds; a
\* record stays in the map; and a record copied from the table, and its
\* row, never change afterwards: it has no task.
C38_RehydrateFrame ==
    [][/\ DOMAIN jobs \subseteq DOMAIN jobs'
       /\ \A id \in DOMAIN jobs' \ DOMAIN jobs :
             \/ /\ id \in JobIds
                /\ statusHist[id] = <<>> /\ statusHist'[id] # <<>>
                /\ task'[id].pc = "fetch"
             \/ /\ id \in DOMAIN db
                /\ jobs'[id] = recordToJobStatus(db[id])
                /\ \A b \in DOMAIN jobs : jobs'[b] = jobs[b]
                /\ UNCHANGED <<db, task, dest, storeLog, statusHist, progHist>>
       /\ subs' # subs => \A id \in DOMAIN jobs : jobs'[id] = jobs[id]
       /\ \A id \in DOMAIN jobs \cap StoredIds :
             /\ jobs'[id] = jobs[id]
             /\ db'[id] = db[id]
             /\ jobs[id].status \in {"queued", "processing"} =>
                   jobs'[id].status = jobs[id].status]_vars

\* a row of a processing job copied into the map, unchanged after a job of
\* this process has run to completion
C38_Witness ==
    /\ "j0" \in DOMAIN jobs
    /\ jobs["j0"].status = "processing"
    /\ jobs["j0"] = recordToJobStatus(db["j0"])
    /\ Watched \in DOMAIN jobs
    /\ jobs[Watched].status = "completed"
    /\ subs[Watcher].pc = "polling"

\* C39: the file endpoint issues a store call only for a job the map holds
\* as completed, and then one GetObject for the key of that job in the
\* downloads bucket; a request for an id the map does not hold is answered
\* 404 and one for a job not completed 400, both with no store call; and
\* no step of the endpoint changes the map, the table, the bucket or a task.
C39_ProxyOnlyWhenCompleted ==
    /\ [](/\ download.calls # <<>> =>
                /\ download.jobId \in DOMAIN jobs
                /\ jobs[download.jobId].status = "completed"
                /\ download.calls =
                      <<[op |-> "get", bucket |-> "downloads",
                         key |-> <<download.jobId, ".zip">>]>>
          /\ download.code \in {404, 400} =>
                download.calls = <<>> /\ download.pc = "done"
          /\ download.code \in {200, 500} => download.calls # <<>>
          /\ download.code = 200 =>
                download.body.stream = dest[<<download.jobId, ".zip">>].Body)
    /\ [][download'.pc # download.pc =>
            /\ UNCHANGED <<jobs, db, dest, task, storeLog, statusHist, progHist>>
            /\ download.pc = "idle" =>
                  IF download'.jobId \notin DOMAIN jobs
                  THEN download'.code = 404 /\ download'.calls = <<>>
                  ELSE IF jobs[download'.jobId].status
                             \in {"queued", "processing", "failed"}
                  THEN download'.code = 400 /\ download'.calls = <<>>
                  ELSE /\ jobs[download'.jobId].status = "completed"
                       /\ download'.pc = "get"
                       /\ download'.code = 0]_vars

\* the archive of a completed job of this process streamed back
C39_Witness ==
    /\ download.pc = "done"
    /\ download.code = 200
    /\ download.jobId = Watched
    /\ jobs[Watched].status = "completed"
    /\ Len(download.body.stream) = jobs[Watched].totalFiles

====
